---- MODULE Spec2Model ----
(***************************************************************************)
(* DocumentsService of jbtwist/gemini_api: the validation pipeline, the    *)
(* in-memory PROJECT_FILE_STORE, the lazily created remote file search     *)
(* store, the uploads to it and the searches over it, and the two handlers *)
(* of the documents router.  Every coroutine is a task; a task runs        *)
(* without interruption from one await to the next, so each action below   *)
(* is the code between two awaits.                                         *)
(***************************************************************************)
EXTENDS Integers, Sequences, FiniteSets, TLC

(***************************************************************************)
(* Bounds of the model.                                                    *)
(***************************************************************************)
MaxBatch == 2          \* longest batch handed to validate_documents
MaxStoreLen == 3       \* a call is started only while the store list fits
MaxCreateCalls == 2    \* remote create invocations issued at most
MaxConcBatch == 1      \* longest batch of a request of ApiConcSpec
MaxConcStoreLen == 2   \* a request of ApiConcSpec is sent only while the list fits

Tasks == {"t1", "t2"}

(***************************************************************************)
(* Text.  A str is a sequence of one-character strings, so that split and  *)
(* lower are computed, not assumed.                                        *)
(***************************************************************************)
UpperCase == <<"A","B","C","D","E","F","G","H","I","J","K","L","M",
               "N","O","P","Q","R","S","T","U","V","W","X","Y","Z">>
LowerCase == <<"a","b","c","d","e","f","g","h","i","j","k","l","m",
               "n","o","p","q","r","s","t","u","v","w","x","y","z">>

\* str.lower(), one character
lower_char(c) ==
  IF \E k \in 1..26 : UpperCase[k] = c
  THEN LowerCase[CHOOSE k \in 1..26 : UpperCase[k] = c]
  ELSE c

\* str.lower()
lower(s) == [k \in 1..Len(s) |-> lower_char(s[k])]

\* str.split("."): the pieces between the separators, left to right
RECURSIVE split(_)
split(s) ==
  IF \A k \in 1..Len(s) : s[k] # "."
  THEN <<s>>
  ELSE LET d == CHOOSE k \in 1..Len(s) : s[k] = "." /\ \A j \in 1..(k-1) : s[j] # "."
       IN  <<SubSeq(s, 1, d - 1)>> \o split(SubSeq(s, d + 1, Len(s)))

\* seq[-1]
last(q) == q[Len(q)]

(***************************************************************************)
(* Settings.                                                               *)
(***************************************************************************)
max_file_size == 15 * 1024 * 1024

allowed_extensions ==
  { <<"p","d","f">>, <<"d","o","c","x">>, <<"t","x","t">>, <<"d","o","c">>, <<"m","d">> }

allowed_mime_types ==
  { "application/pdf", "text/plain", "application/msword",
    "application/vnd.openxmlformats-officedocument.wordprocessingml.document",
    "text/markdown", "text/x-markdown" }

user_uuid == "user_uuid"

\* the value of file_search_store_name before a store is cached; store
\* names are the positive numbers the remote service hands out
None == 0

(***************************************************************************)
(* Bytes.  A file body is a signature followed by filler, so a run of      *)
(* bytes is named by the kind of body and the half-open range it covers.   *)
(***************************************************************************)
Bytes(kind, from, to) ==
  IF to <= from THEN [body |-> "", from |-> 0, to |-> 0]
  ELSE [body |-> kind, from |-> from, to |-> to]

len(b) == b.to - b.from

\* UploadFile.read(n): the bytes from the cursor, at most n of them (all of
\* them when n < 0), and the cursor after the read
file_read(file, cursor, n) ==
  LET stop == IF n < 0 \/ cursor + n > file.size THEN file.size ELSE cursor + n
      end  == IF stop < cursor THEN cursor ELSE stop
  IN  [data |-> Bytes(file.body, cursor, end), pos |-> end]

\* mutant: the seek is lost and the cursor stays where the read left it
file_seek_lost(cursor, offset) == cursor

\* UploadFile.seek(offset): the cursor after the seek
file_seek(cursor, offset) == offset

\* magic.from_buffer(buffer, mime=True)
from_buffer(buffer) ==
  IF len(buffer) = 0 THEN "application/x-empty"
  ELSE IF buffer.body = "pdf" /\ buffer.from = 0 /\ len(buffer) >= 5 THEN "application/pdf"
  ELSE IF buffer.body = "jpeg" /\ buffer.from = 0 /\ len(buffer) >= 3 THEN "image/jpeg"
  ELSE IF buffer.body = "text" THEN "text/plain"
  ELSE "application/octet-stream"

(***************************************************************************)
(* The uploads a request can carry.  size is the length of the body, as    *)
(* the multipart parser sets it.                                           *)
(***************************************************************************)
UploadFile(name, kind, size) == [filename |-> name, body |-> kind, size |-> size]

UploadFiles ==
  { UploadFile(<<"a",".","p","d","f">>, "pdf", 1025),
    UploadFile(<<"F",".","P","D","F">>, "pdf", max_file_size),
    UploadFile(<<"b",".","t","x","t">>, "text", 7),
    UploadFile(<<"p","d","f">>, "pdf", 1025),
    UploadFile(<<"a",".","p","d","f",".","e","x","e">>, "pdf", 1025),
    UploadFile(<<"x",".","e","x","e">>, "jpeg", max_file_size + 1),
    UploadFile(<< >>, "jpeg", max_file_size + 1),
    UploadFile(<<"a",".","p","d","f">>, "jpeg", max_file_size + 1),
    UploadFile(<<"a",".","p","d","f">>, "jpeg", 1025) }

RECURSIVE SeqsUpTo(_, _)
SeqsUpTo(S, n) ==
  IF n = 0 THEN { << >> }
  ELSE LET shorter == SeqsUpTo(S, n - 1)
       IN  shorter \cup { Append(q, x) : q \in { r \in shorter : Len(r) = n - 1 }, x \in S }

Batches == SeqsUpTo(UploadFiles, MaxBatch)

\* the uploads of the requests that run concurrently
ConcUploadFiles ==
  { UploadFile(<<"a",".","p","d","f">>, "pdf", 1025),
    UploadFile(<<"b",".","t","x","t">>, "text", 7) }

ConcBatches == SeqsUpTo(ConcUploadFiles, MaxBatch)

(***************************************************************************)
(* State.                                                                  *)
(***************************************************************************)
VARIABLES
  PROJECT_FILE_STORE,      \* dict: session key -> list of stored records
  file_search_store_name,  \* DocumentsService.file_search_store_name
  remote_stores,           \* stores the remote service has created: 1..remote_stores
  create_calls,            \* invocations of client.file_search_stores.create
  remote_files,            \* the uploads the remote service has completed
  task                     \* per coroutine: its arguments, locals and position

vars ==
  <<PROJECT_FILE_STORE, file_search_store_name, remote_stores, create_calls,
    remote_files, task>>

\* what a call hands back: a returned value or a raised exception
NoResult ==
  [kind |-> "none", truth |-> FALSE, handle |-> None, status |-> 0,
   detail |-> "", filename |-> << >>, mime |-> "",
   project_id |-> "", brief |-> "", results |-> << >>]

ReturnBool(b) == [NoResult EXCEPT !.kind = "return", !.truth = b]

ReturnHandle(h) == [NoResult EXCEPT !.kind = "return", !.handle = h]

HTTPException(status, detail, filename, mime) ==
  [NoResult EXCEPT !.kind = "raise", !.status = status, !.detail = detail,
                   !.filename = filename, !.mime = mime]

\* an exception that is not an HTTPException; detail is str(e)
Exception(message) == [NoResult EXCEPT !.kind = "raise", !.detail = message]

RemoteError == Exception("remote error")

\* the list search_all_user_files returns
ReturnResults(results) == [NoResult EXCEPT !.kind = "return", !.results = results]

\* JSONResponse(content=...): status 200, the keys of both endpoints' content
JSONResponse(project_id, store_name, brief, results) ==
  [NoResult EXCEPT !.kind = "response", !.status = 200, !.project_id = project_id,
                   !.handle = store_name, !.brief = brief, !.results = results]

\* The response the framework sends for what leaves a handler: an
\* HTTPException gives its status and detail, any other exception the
\* server-error response, whose body does not carry str(e).
respond(result) ==
  IF result.kind = "raise" /\ result.status # 0
  THEN [result EXCEPT !.kind = "response"]
  ELSE IF result.kind = "raise"
  THEN [NoResult EXCEPT !.kind = "response", !.status = 500,
                        !.detail = "Internal Server Error"]
  ELSE result

\* A task that runs nothing.  op is the function the task is in and req the
\* handler that serves it, "" for a call made on the service; log, before,
\* appended and calls record what the task has done: the steps of
\* validate_documents, the session's list at the call, the positions of the
\* list the call appended at, the remote calls issued.
Idle ==
  [op |-> "", pc |-> "idle", files |-> << >>, cursor |-> << >>, i |-> 0,
   file_header |-> Bytes("", 0, 0), mime_type |-> "", result |-> NoResult,
   log |-> << >>, before |-> << >>, appended |-> << >>,
   path |-> "", req |-> "", query |-> << >>, project_id |-> "",
   project_files |-> << >>, j |-> 0, store_name |-> None,
   calls |-> << >>, results |-> << >>]

\* one entry of a task's log: the step the call has performed on file i
Ev(i, what) == [file |-> i, step |-> what]

\* PROJECT_FILE_STORE.get(key, [])
store_get(store, key) == IF key \in DOMAIN store THEN store[key] ELSE << >>

\* mutant: the list is reset on every call, not only when the key is missing
store_setdefault_reset(store, key) ==
  [k \in DOMAIN store \cup {key} |-> IF k = key THEN << >> ELSE store[k]]

\* if key not in PROJECT_FILE_STORE: PROJECT_FILE_STORE[key] = []
store_setdefault(store, key) ==
  IF key \in DOMAIN store THEN store
  ELSE [k \in DOMAIN store \cup {key} |-> IF k = key THEN << >> ELSE store[k]]

\* mutant: the record is put in front of the list
store_append_front(store, key, record) == [store EXCEPT ![key] = <<record>> \o @]

\* mutant: the record is written over the last one of the list
store_append_over_last(store, key, record) ==
  [store EXCEPT ![key] = IF @ = << >> THEN <<record>> ELSE [@ EXCEPT ![Len(@)] = record]]

\* mutant: the record replaces the list instead of being appended to it
store_append_replacing(store, key, record) == [store EXCEPT ![key] = <<record>>]

\* PROJECT_FILE_STORE[key].append(record)
store_append(store, key, record) == [store EXCEPT ![key] = Append(@, record)]

\* the dict built at lines 148-152
StoredFile(filename, content, mime_type) ==
  [filename |-> filename, content |-> content, mime_type |-> mime_type]

(***************************************************************************)
(* DocumentsService, the pure checks.                                      *)
(***************************************************************************)
\* mutant: every extension is accepted
_validate_extension_any(filename) == TRUE

_validate_extension(filename) == lower(last(split(filename))) \in allowed_extensions

\* mutant: < instead of <=
_validate_size_strict(file) == file.size < max_file_size

_validate_size(file) == file.size <= max_file_size

(***************************************************************************)
(* validate_documents.                                                     *)
(***************************************************************************)
\* mutant: the size is checked before the extension
loop_head_size_first(s, i) ==
  IF i > Len(s.files)
  THEN [s EXCEPT !.pc = "done", !.i = i, !.result = ReturnBool(TRUE)]
  ELSE
    LET file == s.files[i]
        l1 == Append(s.log, Ev(i, "filename"))
        l2 == Append(l1, Ev(i, "size"))
        l3 == Append(l2, Ev(i, "extension"))
    IN  IF file.filename = << >>
        THEN [s EXCEPT !.pc = "done", !.i = i, !.log = l1,
                       !.result = HTTPException(400, "Invalid file name", << >>, "")]
        ELSE IF ~ _validate_size(file)
        THEN [s EXCEPT !.pc = "done", !.i = i, !.log = l2,
                       !.result = HTTPException(413, "File too large", file.filename, "")]
        ELSE IF ~ _validate_extension(file.filename)
        THEN [s EXCEPT !.pc = "done", !.i = i, !.log = l3,
                       !.result = HTTPException(415, "Unsupported file type", file.filename, "")]
        ELSE [s EXCEPT !.pc = "read_header", !.i = i, !.log = l3]

\* The for statement reaching files[i]: the three synchronous checks of the
\* file, up to the await of file.read(1024) in _get_mime_type; past the last
\* file, return True.
loop_head(s, i) ==
  IF i > Len(s.files)
  THEN [s EXCEPT !.pc = "done", !.i = i, !.result = ReturnBool(TRUE)]
  ELSE
    LET file == s.files[i]
        l1 == Append(s.log, Ev(i, "filename"))
        l2 == Append(l1, Ev(i, "extension"))
        l3 == Append(l2, Ev(i, "size"))
    IN  IF file.filename = << >>
        THEN [s EXCEPT !.pc = "done", !.i = i, !.log = l1,
                       !.result = HTTPException(400, "Invalid file name", << >>, "")]
        ELSE IF ~ _validate_extension(file.filename)
        THEN [s EXCEPT !.pc = "done", !.i = i, !.log = l2,
                       !.result = HTTPException(415, "Unsupported file type", file.filename, "")]
        ELSE IF ~ _validate_size(file)
        THEN [s EXCEPT !.pc = "done", !.i = i, !.log = l3,
                       !.result = HTTPException(413, "File too large", file.filename, "")]
        ELSE [s EXCEPT !.pc = "read_header", !.i = i, !.log = l3]

\* the call, up to its first await
validate_documents(s, files, store) ==
  LET s0 == [s EXCEPT !.op = "validate_documents", !.files = files,
                      !.cursor = [k \in 1..Len(files) |-> 0],
                      !.before = store_get(store, user_uuid)]
  IN  IF files = << >>
      THEN [s0 EXCEPT !.pc = "done",
                      !.result = HTTPException(400, "No files uploaded", << >>, "")]
      ELSE loop_head(s0, 1)

\* _get_mime_type: file.read(1024) completes, magic.from_buffer runs, and
\* file.seek(0) is awaited
read_header(s) ==
  LET r == file_read(s.files[s.i], s.cursor[s.i], 1024)
  IN  [s EXCEPT !.pc = "seek", !.file_header = r.data, !.cursor[s.i] = r.pos,
                !.mime_type = from_buffer(r.data),
                !.log = Append(@, Ev(s.i, "sniff"))]

\* file.seek(0) completes and _get_mime_type returns: the MIME check, then
\* store_project_files up to its await of file.read()
after_seek(s) ==
  LET c == [s.cursor EXCEPT ![s.i] = file_seek(@, 0)]
      l1 == Append(s.log, Ev(s.i, "mime"))
  IN  IF s.mime_type \notin allowed_mime_types
      THEN [s EXCEPT !.pc = "done", !.cursor = c, !.log = l1,
                     !.result = HTTPException(415, "Unsupported MIME type", << >>, s.mime_type)]
      ELSE [s EXCEPT !.pc = "read_content", !.cursor = c,
                     !.log = Append(l1, Ev(s.i, "store"))]

(***************************************************************************)
(* ensure_store_exists.                                                    *)
(***************************************************************************)
\* mutant: the cached name is not looked at
store_is_missing_always(name) == TRUE

\* line 123
store_is_missing(name) == name = None

\* mutant: a name already cached is kept (compare-and-set)
cache_store_name_if_unset(name, created) == IF name = None THEN created ELSE name

\* line 128: what the field holds after a create has answered with `created`
cache_store_name(name, created) == created

(***************************************************************************)
(* The remote calls a coroutine issues, in the order it issues them.       *)
(***************************************************************************)
RemoteCall ==
  [api |-> "", store |-> None, filename |-> << >>, content |-> Bytes("", 0, 0),
   mime_type |-> "", contents |-> << >>, text |-> "", error |-> ""]

\* client.file_search_stores.create(config={'display_name': ...})
create == [RemoteCall EXCEPT !.api = "create"]

\* client.file_search_stores.upload_to_file_search_store(
\*   file_search_store_name=..., file=BytesIO(content),
\*   config={'mime_type': ..., 'display_name': filename})
upload_to_file_search_store(store_name, file_data) ==
  [RemoteCall EXCEPT !.api = "upload", !.store = store_name,
                     !.content = file_data.content,
                     !.mime_type = file_data.mime_type,
                     !.filename = file_data.filename]

\* client.models.generate_content(contents=..., config=<file search tool
\* over file_search_store_names=[store_name]>)
generate_content(contents, store_name) ==
  [RemoteCall EXCEPT !.api = "generate", !.contents = contents, !.store = store_name]

\* what the remote service can answer and fail with
Texts == {"text one", "text two"}

ErrorMessages == {"quota exceeded", "unavailable"}

\* the call a task awaits has answered with text
answered(s, text) == [s EXCEPT !.calls[Len(s.calls)].text = text]

\* the call a task awaits has raised e; ensure_store_exists called on its
\* own keeps no list of calls
raised(s, e) ==
  IF s.calls = << >> THEN s ELSE [s EXCEPT !.calls[Len(s.calls)].error = e.detail]

(***************************************************************************)
(* Leaving the outermost coroutine.  A call made on the service hands its  *)
(* result to the caller; a handler's result goes through the framework.    *)
(***************************************************************************)
leave(s, result) ==
  IF s.req = ""
  THEN [s EXCEPT !.pc = "done", !.result = result]
  ELSE [s EXCEPT !.pc = "done", !.op = s.req, !.result = respond(result)]

(***************************************************************************)
(* generate_brief, after upload_files_to_store has returned.               *)
(***************************************************************************)
\* mutant: the names of the first record only
file_names_first(store) ==
  [k \in 1..(IF store_get(store, user_uuid) = << >> THEN 0 ELSE 1) |->
     store_get(store, user_uuid)[k].filename]

\* [f["filename"] for f in PROJECT_FILE_STORE.get(user_uuid, [])]
file_names(store) ==
  [k \in 1..Len(store_get(store, user_uuid)) |-> store_get(store, user_uuid)[k].filename]

\* ', '.join(names)
RECURSIVE join(_)
join(names) ==
  IF names = << >> THEN << >>
  ELSE IF Len(names) = 1 THEN names[1]
  ELSE names[1] \o <<",", " ">> \o join(Tail(names))

\* the f-string of line 46; the fixed text is one element of the sequence
prompt(names) ==
  <<"Provide a concise brief for the following documents: ">> \o join(names)

\* lines 45-60: the prompt is built and the generation request is issued
brief_generate(s, store) ==
  [s EXCEPT !.op = "generate_brief", !.pc = "generate",
            !.calls = Append(@, generate_content(prompt(file_names(store)), s.store_name))]

\* lines 62-66
brief_response(s, text) ==
  leave(s, JSONResponse(user_uuid, s.store_name, text, << >>))

(***************************************************************************)
(* upload_files_to_store.                                                  *)
(***************************************************************************)
\* mutant: the loop does not see what other requests have appended since
\* the request was sent
upload_loop_not_live(s, store) ==
  LET list == store_get(store, user_uuid)
      j == s.j + 1
  IN  IF j > Len(list) \/ j > Len(s.before) + Len(s.appended)
      THEN IF s.req = "generate_brief"
           THEN brief_generate([s EXCEPT !.j = j], store)
           ELSE leave([s EXCEPT !.j = j], ReturnHandle(s.store_name))
      ELSE [s EXCEPT !.pc = "upload", !.j = j,
                     !.calls = Append(@, upload_to_file_search_store(s.store_name, list[j]))]

\* mutant: the loop ends after the first record
upload_loop_first_only(s, store) ==
  LET list == store_get(store, user_uuid)
      j == s.j + 1
  IN  IF j > Len(list) \/ j > 1
      THEN IF s.req = "generate_brief"
           THEN brief_generate([s EXCEPT !.j = j], store)
           ELSE leave([s EXCEPT !.j = j], ReturnHandle(s.store_name))
      ELSE [s EXCEPT !.pc = "upload", !.j = j,
                     !.calls = Append(@, upload_to_file_search_store(s.store_name, list[j]))]

\* The for statement over PROJECT_FILE_STORE.get(user_uuid, []) reaching
\* its next record: the upload is issued and awaited; past the end of the
\* list the store name is returned, to the handler when it made the call.
\* The iterator goes over the list itself, so it sees what the list holds
\* when it is asked for the next record.
upload_loop(s, store) ==
  LET list == store_get(store, user_uuid)
      j == s.j + 1
  IN  IF j > Len(list)
      THEN IF s.req = "generate_brief"
           THEN brief_generate([s EXCEPT !.j = j], store)
           ELSE leave([s EXCEPT !.j = j], ReturnHandle(s.store_name))
      ELSE [s EXCEPT !.pc = "upload", !.j = j,
                     !.calls = Append(@, upload_to_file_search_store(s.store_name, list[j]))]

\* the call, up to its first await: that of the remote create when no name
\* is cached, else that of the first upload
upload_files_to_store(s, name, store) ==
  LET s0 == [s EXCEPT !.op = "upload_files_to_store", !.j = 0, !.result = NoResult]
  IN  IF store_is_missing(name)
      THEN [s0 EXCEPT !.pc = "create", !.calls = Append(@, create)]
      ELSE upload_loop([s0 EXCEPT !.store_name = name], store)

\* generate_brief at line 43-44: validate_documents has returned or raised
resume(s, name, store) ==
  IF s.req = "generate_brief" /\ s.op = "validate_documents" /\ s.pc = "done"
  THEN IF s.result.kind = "raise"
       THEN leave(s, s.result)
       ELSE upload_files_to_store(s, name, store)
  ELSE s

(***************************************************************************)
(* search_individual_file and search_all_user_files.                       *)
(***************************************************************************)
\* the list the for statement of search_all_user_files goes over: the
\* handler passes PROJECT_FILE_STORE[project_id] itself
project_files_of(s, store) ==
  IF s.req = "search_store" THEN store_get(store, s.project_id) ELSE s.project_files

\* mutant: the snippet is filed under the name of the first file
search_result_first_name(s, store, text) ==
  [filename |-> project_files_of(s, store)[1].filename, snippet |-> text]

\* lines 210-213
search_result(s, store, text) ==
  [filename |-> project_files_of(s, store)[s.j].filename, snippet |-> text]

\* the for statement reaching its next file: search_individual_file issues
\* the generation request and awaits it; past the end, results is returned
search_loop(s, name, store) ==
  LET list == project_files_of(s, store)
      j == s.j + 1
  IN  IF j > Len(list)
      THEN IF s.req = "search_store"
           THEN leave([s EXCEPT !.j = j], JSONResponse("", None, "", s.results))
           ELSE leave([s EXCEPT !.j = j], ReturnResults(s.results))
      ELSE [s EXCEPT !.pc = "search", !.j = j,
                     !.calls = Append(@, generate_content(s.query, name))]

\* the call, up to its first await
search_all_user_files(s, query, project_files, name, store) ==
  search_loop([s EXCEPT !.op = "search_all_user_files", !.query = query,
                        !.project_files = project_files, !.j = 0,
                        !.results = << >>],
              name, store)

\* mutant: the handler's detail leaves str(e) out
search_raises_no_message(s, e) ==
  IF s.req = "search_store"
  THEN leave(s, HTTPException(500, "Error during search", << >>, ""))
  ELSE leave(s, e)

\* mutant: the results obtained so far are handed back
search_raises_partial(s, e) ==
  IF s.req = "search_store"
  THEN leave(s, JSONResponse("", None, "", s.results))
  ELSE leave(s, ReturnResults(s.results))

\* the generation request raises e: nothing catches it in the service; the
\* handler's except clause (lines 105-106) turns it into an HTTPException
search_raises(s, e) ==
  IF s.req = "search_store"
  THEN leave(s, HTTPException(500, "Error during search: " \o e.detail, << >>, ""))
  ELSE leave(s, e)

(***************************************************************************)
(* The router and its two handlers.                                        *)
(***************************************************************************)
\* APIRouter(prefix=...) in documents_router.py
router_prefix == "/documents"

\* app.include_router(documents_router, prefix=...) in main.py
include_prefix == "/documents"

\* the path of a route of the router once the app has included it
include_router(path) == include_prefix \o router_prefix \o path

routes ==
  { [method |-> "POST", path |-> include_router("/brief"), endpoint |-> "generate_brief"],
    [method |-> "POST", path |-> include_router("/search"), endpoint |-> "search_store"] }

\* the handler a request is dispatched to, "" when no route matches
route(method, path) ==
  IF \E r \in routes : r.method = method /\ r.path = path
  THEN (CHOOSE r \in routes : r.method = method /\ r.path = path).endpoint
  ELSE ""

\* the response to a request no route matches
NotFound == [NoResult EXCEPT !.kind = "response", !.status = 404, !.detail = "Not Found"]

\* generate_brief up to its first await
generate_brief(s, path, files, name, store) ==
  resume(validate_documents([s EXCEPT !.req = "generate_brief", !.path = path],
                            files, store),
         name, store)

\* mutant: the project id is looked at before the query
search_store_checks_project_first(query, project_id, store) ==
  IF project_id = ""
  THEN HTTPException(400, "Project ID is required", << >>, "")
  ELSE IF query = << >>
  THEN HTTPException(400, "Query cannot be empty", << >>, "")
  ELSE IF store_get(store, project_id) = << >>
  THEN HTTPException(404, "No files found for the given project ID", << >>, "")
  ELSE NoResult

\* mutant: a project without files is searched
search_store_checks_no_404(query, project_id, store) ==
  IF query = << >>
  THEN HTTPException(400, "Query cannot be empty", << >>, "")
  ELSE IF project_id = ""
  THEN HTTPException(400, "Project ID is required", << >>, "")
  ELSE NoResult

\* lines 94-99: the exception the input checks raise, NoResult when none
search_store_checks(query, project_id, store) ==
  IF query = << >>
  THEN HTTPException(400, "Query cannot be empty", << >>, "")
  ELSE IF project_id = ""
  THEN HTTPException(400, "Project ID is required", << >>, "")
  ELSE IF store_get(store, project_id) = << >>
  THEN HTTPException(404, "No files found for the given project ID", << >>, "")
  ELSE NoResult

\* search_store up to its first await; search_all_user_files is handed the
\* list PROJECT_FILE_STORE[project_id] itself, which the task names by
\* project_id
search_store(s, path, query, project_id, name, store) ==
  LET s0 == [s EXCEPT !.req = "search_store", !.op = "search_store", !.path = path,
                      !.query = query, !.project_id = project_id]
      e == search_store_checks(query, project_id, store)
  IN  IF e.kind = "raise"
      THEN leave(s0, e)
      ELSE search_all_user_files(s0, query, << >>, name, store)

(***************************************************************************)
(* What requests and calls carry.                                          *)
(***************************************************************************)
Paths ==
  {"/documents/brief", "/documents/search",
   "/documents/documents/brief", "/documents/documents/search"}

Queries == { << >>, <<"q">> }

ProjectIds == {"", user_uuid, "other"}

\* the lists a caller of search_all_user_files passes
FileInfos ==
  { StoredFile(<<"a",".","p","d","f">>, Bytes("pdf", 0, 1025), "application/pdf"),
    StoredFile(<<"b",".","t","x","t">>, Bytes("text", 0, 7), "text/plain") }

FileLists == SeqsUpTo(FileInfos, MaxBatch)

(***************************************************************************)
(* Actions: a call or request up to its first await, then one action per   *)
(* awaited operation that completes.                                       *)
(***************************************************************************)
\* the appends the calls in progress can still make
RECURSIVE Pending(_)
Pending(T) ==
  IF T = {} THEN 0
  ELSE LET t == CHOOSE x \in T : TRUE
           s == task[t]
       IN  (IF s.pc \in {"read_header", "seek", "read_content"}
            THEN Len(s.files) - s.i + 1 ELSE 0) + Pending(T \ {t})

\* the brief requests in progress that have yet to reach ensure_store_exists
Reserved ==
  Cardinality({ u \in Tasks : /\ task[u].req = "generate_brief"
                              /\ task[u].pc \in {"read_header", "seek", "read_content"} })

ValidateCall(t, files) ==
  /\ task[t].pc = "idle"
  /\ Len(store_get(PROJECT_FILE_STORE, user_uuid)) + Pending(Tasks) + Len(files) <= MaxStoreLen
  /\ task' = [task EXCEPT ![t] = validate_documents(@, files, PROJECT_FILE_STORE)]
  /\ UNCHANGED <<PROJECT_FILE_STORE, file_search_store_name, remote_stores,
                 create_calls, remote_files>>

ReadHeader(t) ==
  /\ task[t].pc = "read_header"
  /\ task' = [task EXCEPT ![t] = read_header(@)]
  /\ UNCHANGED <<PROJECT_FILE_STORE, file_search_store_name, remote_stores,
                 create_calls, remote_files>>

Seek(t) ==
  /\ task[t].pc = "seek"
  /\ task' = [task EXCEPT ![t] =
                resume(after_seek(@), file_search_store_name, PROJECT_FILE_STORE)]
  /\ PROJECT_FILE_STORE' =
       IF task'[t].pc = "read_content"
       THEN store_setdefault(PROJECT_FILE_STORE, user_uuid)
       ELSE PROJECT_FILE_STORE
  /\ UNCHANGED <<file_search_store_name, remote_stores, create_calls, remote_files>>

\* file.read() completes: the record is appended and the loop goes on; when
\* the batch is done inside generate_brief, upload_files_to_store starts
ReadContent(t) ==
  /\ task[t].pc = "read_content"
  /\ LET s == task[t]
         r == file_read(s.files[s.i], s.cursor[s.i], -1)
         record == StoredFile(s.files[s.i].filename, r.data, s.mime_type)
         at == Len(store_get(PROJECT_FILE_STORE', user_uuid))
     IN  /\ PROJECT_FILE_STORE' = store_append(PROJECT_FILE_STORE, user_uuid, record)
         /\ task' = [task EXCEPT ![t] =
                       resume(loop_head([s EXCEPT !.cursor[s.i] = r.pos,
                                                  !.appended = Append(@, at)],
                                        s.i + 1),
                              file_search_store_name, PROJECT_FILE_STORE')]
  /\ create_calls' = create_calls + (IF task'[t].pc = "create" THEN 1 ELSE 0)
  /\ UNCHANGED <<file_search_store_name, remote_stores, remote_files>>

\* file.read() fails in store_project_files, after the session's key has
\* been set: nothing catches the exception
ReadContentRaises(t) ==
  /\ task[t].pc = "read_content"
  /\ task' = [task EXCEPT ![t] = leave(@, Exception("read failed"))]
  /\ UNCHANGED <<PROJECT_FILE_STORE, file_search_store_name, remote_stores,
                 create_calls, remote_files>>

EnsureCall(t) ==
  /\ task[t].pc = "idle"
  /\ IF store_is_missing(file_search_store_name)
     THEN /\ create_calls + Reserved < MaxCreateCalls
          /\ create_calls' = create_calls + 1
          /\ task' = [task EXCEPT ![t] =
                        [@ EXCEPT !.op = "ensure_store_exists", !.pc = "create",
                                  !.log = <<Ev(0, "create")>>]]
     ELSE /\ create_calls' = create_calls
          /\ task' = [task EXCEPT ![t] =
                        [@ EXCEPT !.op = "ensure_store_exists", !.pc = "done",
                                  !.result = ReturnHandle(file_search_store_name)]]
  /\ UNCHANGED <<PROJECT_FILE_STORE, file_search_store_name, remote_stores, remote_files>>

\* the remote service creates the store and answers; the name is cached and
\* returned, to upload_files_to_store when it made the call
CreateReturns(t) ==
  /\ task[t].pc = "create"
  /\ remote_stores' = remote_stores + 1
  /\ file_search_store_name' = cache_store_name(file_search_store_name, remote_stores')
  /\ task' = [task EXCEPT ![t] =
                IF @.op = "ensure_store_exists"
                THEN [@ EXCEPT !.pc = "done",
                               !.result = ReturnHandle(file_search_store_name')]
                ELSE upload_loop([@ EXCEPT !.store_name = file_search_store_name'],
                                 PROJECT_FILE_STORE)]
  /\ UNCHANGED <<PROJECT_FILE_STORE, create_calls, remote_files>>

\* the remote call fails: the exception leaves ensure_store_exists and its
\* callers
CreateRaises(t) ==
  /\ task[t].pc = "create"
  /\ task' = [task EXCEPT ![t] = leave(raised(@, RemoteError), RemoteError)]
  /\ UNCHANGED <<PROJECT_FILE_STORE, file_search_store_name, remote_stores,
                 create_calls, remote_files>>

UploadCall(t) ==
  /\ task[t].pc = "idle"
  /\ store_is_missing(file_search_store_name) => create_calls + Reserved < MaxCreateCalls
  /\ task' = [task EXCEPT ![t] =
                upload_files_to_store(@, file_search_store_name, PROJECT_FILE_STORE)]
  /\ create_calls' = create_calls + (IF task'[t].pc = "create" THEN 1 ELSE 0)
  /\ UNCHANGED <<PROJECT_FILE_STORE, file_search_store_name, remote_stores, remote_files>>

\* the awaited upload completes: the remote store holds the file, and the
\* loop goes on
UploadReturns(t) ==
  /\ task[t].pc = "upload"
  /\ remote_files' = remote_files \cup {task[t].calls[Len(task[t].calls)]}
  /\ task' = [task EXCEPT ![t] = upload_loop(@, PROJECT_FILE_STORE)]
  /\ UNCHANGED <<PROJECT_FILE_STORE, file_search_store_name, remote_stores, create_calls>>

\* the awaited upload fails: nothing catches the exception
UploadRaises(t, message) ==
  /\ task[t].pc = "upload"
  /\ task' = [task EXCEPT ![t] = leave(raised(@, Exception(message)), Exception(message))]
  /\ UNCHANGED <<PROJECT_FILE_STORE, file_search_store_name, remote_stores,
                 create_calls, remote_files>>

SearchCall(t, query, project_files) ==
  /\ task[t].pc = "idle"
  /\ task' = [task EXCEPT ![t] =
                search_all_user_files(@, query, project_files,
                                      file_search_store_name, PROJECT_FILE_STORE)]
  /\ UNCHANGED <<PROJECT_FILE_STORE, file_search_store_name, remote_stores,
                 create_calls, remote_files>>

\* the generation request of search_individual_file answers with text: the
\* result is appended and the loop goes on
SearchReturns(t, text) ==
  /\ task[t].pc = "search"
  /\ LET s == task[t]
         s1 == [answered(s, text) EXCEPT
                  !.results = Append(@, search_result(s, PROJECT_FILE_STORE, text))]
     IN  task' = [task EXCEPT ![t] =
                    search_loop(s1, file_search_store_name, PROJECT_FILE_STORE)]
  /\ UNCHANGED <<PROJECT_FILE_STORE, file_search_store_name, remote_stores,
                 create_calls, remote_files>>

SearchRaises(t, message) ==
  /\ task[t].pc = "search"
  /\ task' = [task EXCEPT ![t] =
                search_raises(raised(@, Exception(message)), Exception(message))]
  /\ UNCHANGED <<PROJECT_FILE_STORE, file_search_store_name, remote_stores,
                 create_calls, remote_files>>

\* POST path with a multipart file list
BriefRequest(t, path, files) ==
  /\ task[t].pc = "idle"
  /\ route("POST", path) = "generate_brief"
  /\ Len(store_get(PROJECT_FILE_STORE, user_uuid)) + Pending(Tasks) + Len(files) <= MaxStoreLen
  /\ store_is_missing(file_search_store_name) => create_calls + Reserved < MaxCreateCalls
  /\ task' = [task EXCEPT ![t] =
                generate_brief(@, path, files, file_search_store_name, PROJECT_FILE_STORE)]
  /\ UNCHANGED <<PROJECT_FILE_STORE, file_search_store_name, remote_stores,
                 create_calls, remote_files>>

\* the generation request of generate_brief answers with text
BriefReturns(t, text) ==
  /\ task[t].pc = "generate"
  /\ task' = [task EXCEPT ![t] =
                brief_response(answered(@, text), text)]
  /\ UNCHANGED <<PROJECT_FILE_STORE, file_search_store_name, remote_stores,
                 create_calls, remote_files>>

\* the generation request of generate_brief fails: nothing catches the
\* exception
BriefRaises(t, message) ==
  /\ task[t].pc = "generate"
  /\ task' = [task EXCEPT ![t] = leave(raised(@, Exception(message)), Exception(message))]
  /\ UNCHANGED <<PROJECT_FILE_STORE, file_search_store_name, remote_stores,
                 create_calls, remote_files>>

\* POST path?query=...&project_id=...
SearchRequest(t, path, query, project_id) ==
  /\ task[t].pc = "idle"
  /\ route("POST", path) = "search_store"
  /\ task' = [task EXCEPT ![t] =
                search_store(@, path, query, project_id,
                             file_search_store_name, PROJECT_FILE_STORE)]
  /\ UNCHANGED <<PROJECT_FILE_STORE, file_search_store_name, remote_stores,
                 create_calls, remote_files>>

\* POST to a path that no route has
UnroutedRequest(t, path) ==
  /\ task[t].pc = "idle"
  /\ route("POST", path) = ""
  /\ task' = [task EXCEPT ![t] = [@ EXCEPT !.path = path, !.pc = "done", !.result = NotFound]]
  /\ UNCHANGED <<PROJECT_FILE_STORE, file_search_store_name, remote_stores,
                 create_calls, remote_files>>

\* the caller has the result; the coroutine is gone
Finish(t) ==
  /\ task[t].pc = "done"
  /\ task' = [task EXCEPT ![t] = Idle]
  /\ UNCHANGED <<PROJECT_FILE_STORE, file_search_store_name, remote_stores,
                 create_calls, remote_files>>

\* the batches a brief request carries: the parser hands the handler at
\* least one file
BriefBatches ==
  SeqsUpTo(ConcUploadFiles \cup { UploadFile(<<"a",".","p","d","f">>, "jpeg", 1025) },
           MaxBatch) \ { << >> }

(***************************************************************************)
(* Specifications.  Spec: one caller awaits each call of                   *)
(* validate_documents and ensure_store_exists before it makes the next, so *)
(* calls do not overlap.  ConcSpec: callers run as tasks that the event    *)
(* loop interleaves at their awaits.  ApiSpec: one client sends requests   *)
(* to the two endpoints and calls every method of the service, one after   *)
(* the other, and reading a file's content can fail.  HttpSpec: the client *)
(* of ApiSpec sends requests only.  ApiConcSpec: requests to the two       *)
(* endpoints run as tasks that the event loop interleaves.                 *)
(***************************************************************************)
Init ==
  /\ PROJECT_FILE_STORE = << >>
  /\ file_search_store_name = None
  /\ remote_stores = 0
  /\ create_calls = 0
  /\ remote_files = {}
  /\ task = [t \in Tasks |-> Idle]

\* the one caller of Spec
Main == CHOOSE t \in Tasks : TRUE

Step(t) ==
  \/ ReadHeader(t)
  \/ Seek(t)
  \/ ReadContent(t)
  \/ CreateReturns(t)
  \/ CreateRaises(t)
  \/ Finish(t)

\* the awaited remote calls of upload, search and brief
RemoteStep(t) ==
  \/ UploadReturns(t)
  \/ \E message \in ErrorMessages : UploadRaises(t, message)
  \/ \E text \in Texts : SearchReturns(t, text)
  \/ \E message \in ErrorMessages : SearchRaises(t, message)
  \/ \E text \in Texts : BriefReturns(t, text)
  \/ \E message \in ErrorMessages : BriefRaises(t, message)

Call(t) ==
  \/ \E files \in Batches : ValidateCall(t, files)
  \/ EnsureCall(t)

ServiceCall(t) ==
  \/ UploadCall(t)
  \/ \E query \in Queries, project_files \in FileLists : SearchCall(t, query, project_files)

Request(t) ==
  \/ \E path \in Paths, files \in BriefBatches : BriefRequest(t, path, files)
  \/ \E path \in Paths, query \in Queries, project_id \in ProjectIds :
       SearchRequest(t, path, query, project_id)
  \/ \E path \in Paths : UnroutedRequest(t, path)

ConcCall(t) ==
  \/ \E files \in ConcBatches : ValidateCall(t, files)
  \/ EnsureCall(t)

\* the batches of the requests that ApiConcSpec interleaves
SmallBatches == SeqsUpTo(ConcUploadFiles, MaxConcBatch)

ConcBriefRequest(t, path, files) ==
  /\ Len(store_get(PROJECT_FILE_STORE, user_uuid)) + Pending(Tasks) + Len(files)
       <= MaxConcStoreLen
  /\ BriefRequest(t, path, files)

ApiConcCall(t) ==
  \/ \E path \in Paths, files \in SmallBatches \ { << >> } :
       ConcBriefRequest(t, path, files)
  \/ \E path \in Paths : SearchRequest(t, path, <<"q">>, user_uuid)

\* the awaited remote calls of ApiConcSpec: an upload answers or fails, a
\* generation answers
ConcRemoteStep(t) ==
  \/ UploadReturns(t)
  \/ UploadRaises(t, "unavailable")
  \/ SearchReturns(t, "text one")
  \/ BriefReturns(t, "text one")

Next == Call(Main) \/ Step(Main)

ConcNext == \E t \in Tasks : ConcCall(t) \/ Step(t)

ApiNext ==
  \/ ConcCall(Main)
  \/ ServiceCall(Main)
  \/ Request(Main)
  \/ Step(Main)
  \/ RemoteStep(Main)
  \/ ReadContentRaises(Main)

HttpNext ==
  \/ Request(Main)
  \/ Step(Main)
  \/ RemoteStep(Main)
  \/ ReadContentRaises(Main)

ApiConcNext ==
  \E t \in Tasks :
    \/ ApiConcCall(t)
    \/ Step(t)
    \/ ConcRemoteStep(t)

Spec == Init /\ [][Next]_vars

ConcSpec == Init /\ [][ConcNext]_vars

ApiSpec == Init /\ [][ApiNext]_vars

HttpSpec == Init /\ [][HttpNext]_vars

ApiConcSpec == Init /\ [][ApiConcNext]_vars

(***************************************************************************)
(* Vocabulary of the claims, stated without the service's own checks.      *)
(***************************************************************************)
HasDot(name) == \E k \in 1..Len(name) : name[k] = "."

\* the string after the final '.' of a name that has one
AfterLastDot(name) ==
  LET d == CHOOSE k \in 1..Len(name) :
             name[k] = "." /\ \A j \in (k+1)..Len(name) : name[j] # "."
  IN  SubSeq(name, d + 1, Len(name))

SameLetter(c, d) ==
  c = d \/ \E k \in 1..26 : {c, d} = {UpperCase[k], LowerCase[k]}

EqualIgnoringCase(a, b) ==
  Len(a) = Len(b) /\ \A k \in 1..Len(a) : SameLetter(a[k], b[k])

\* the name has an extension and the allow-list holds it
AllowedExtension(name) ==
  HasDot(name) /\ \E e \in allowed_extensions : EqualIgnoringCase(AfterLastDot(name), e)

\* the name has an extension and the allow-list does not hold it
DisallowedExtension(name) == HasDot(name) /\ ~ AllowedExtension(name)

FullBody(file) == Bytes(file.body, 0, file.size)

\* the MIME type of the first 1024 bytes of the body
SniffedMime(file) ==
  from_buffer(Bytes(file.body, 0, IF file.size < 1024 THEN file.size ELSE 1024))

ValidFile(file) ==
  /\ file.filename # << >>
  /\ AllowedExtension(file.filename)
  /\ file.size <= max_file_size
  /\ SniffedMime(file) \in allowed_mime_types

RecordOf(file) == StoredFile(file.filename, FullBody(file), SniffedMime(file))

RecordsOf(files, n) == [k \in 1..n |-> RecordOf(files[k])]

StoreList == store_get(PROJECT_FILE_STORE, user_uuid)

Validating(t) == task[t].op = "validate_documents"

Validated(t) == Validating(t) /\ task[t].pc = "done"

Raised(t) == task[t].pc = "done" /\ task[t].result.kind = "raise"

Logged(t, k, what) == \E p \in 1..Len(task[t].log) : task[t].log[p] = Ev(k, what)

(***************************************************************************)
(* C1: for every non-empty batch whose files all have a non-empty name, an *)
(* allowed extension, a size within the maximum and an allowed sniffed     *)
(* MIME type, validate_documents returns True and the session's store      *)
(* list is the list at the call followed by one record per file of the     *)
(* batch, in batch order.                                                  *)
(***************************************************************************)
C1_ValidBatchIsStored ==
  \A t \in Tasks :
    ( /\ Validated(t)
      /\ task[t].files # << >>
      /\ \A k \in 1..Len(task[t].files) : ValidFile(task[t].files[k]) )
    => /\ task[t].result = ReturnBool(TRUE)
       /\ Len(StoreList) = Len(task[t].before) + Len(task[t].files)
       /\ StoreList = task[t].before \o RecordsOf(task[t].files, Len(task[t].files))

C1_Witness ==
  \E t \in Tasks :
    /\ Validated(t)
    /\ Len(task[t].files) = 2
    /\ \A k \in 1..2 : ValidFile(task[t].files[k])
    /\ task[t].files[1] # task[t].files[2]
    /\ task[t].before # << >>
    /\ task[t].result = ReturnBool(TRUE)

(***************************************************************************)
(* C2: the checks run in the fixed order empty batch, then per file in     *)
(* batch order filename, extension, size, sniffed MIME type; the error is  *)
(* that of the first failing check of the first failing file, and nothing  *)
(* is checked or stored for a later file.  Whether one check passes is     *)
(* the check's own business; the order is what is stated here.             *)
(***************************************************************************)
FirstFailingCheck(file) ==
  IF file.filename = << >> THEN "filename"
  ELSE IF ~ _validate_extension(file.filename) THEN "extension"
  ELSE IF ~ _validate_size(file) THEN "size"
  ELSE IF SniffedMime(file) \notin allowed_mime_types THEN "mime"
  ELSE "none"

ErrorOf(file, c) ==
      IF c = "filename" THEN HTTPException(400, "Invalid file name", << >>, "")
      ELSE IF c = "extension" THEN HTTPException(415, "Unsupported file type", file.filename, "")
      ELSE IF c = "size" THEN HTTPException(413, "File too large", file.filename, "")
      ELSE HTTPException(415, "Unsupported MIME type", << >>, SniffedMime(file))

StepsOf(c) ==
      IF c = "filename" THEN <<"filename">>
      ELSE IF c = "extension" THEN <<"filename", "extension">>
      ELSE IF c = "size" THEN <<"filename", "extension", "size">>
      ELSE IF c = "mime" THEN <<"filename", "extension", "size", "sniff", "mime">>
      ELSE <<"filename", "extension", "size", "sniff", "mime", "store">>

\* the files of a batch that precede its first failing file
RECURSIVE PassedBefore(_, _)
PassedBefore(files, k) ==
  IF k > Len(files) \/ FirstFailingCheck(files[k]) # "none" THEN k - 1
  ELSE PassedBefore(files, k + 1)

RECURSIVE ExpectedLog(_, _)
ExpectedLog(files, k) ==
  IF k > Len(files) THEN << >>
  ELSE LET c == FirstFailingCheck(files[k])
           names == StepsOf(c)
           steps == [p \in 1..Len(names) |-> Ev(k, names[p])]
       IN  IF c # "none" THEN steps
           ELSE steps \o ExpectedLog(files, k + 1)

ExpectedResult(files) ==
  LET n == PassedBefore(files, 1)
  IN  IF files = << >> THEN HTTPException(400, "No files uploaded", << >>, "")
      ELSE IF n = Len(files) THEN ReturnBool(TRUE)
      ELSE ErrorOf(files[n + 1], FirstFailingCheck(files[n + 1]))

IsPrefix(a, b) == Len(a) <= Len(b) /\ a = SubSeq(b, 1, Len(a))

C2_ChecksInFixedOrder ==
  \A t \in Tasks :
    Validating(t) =>
      LET expected == ExpectedLog(task[t].files, 1)
      IN  /\ IsPrefix(task[t].log, expected)
          /\ task[t].pc = "done" =>
               /\ task[t].result = ExpectedResult(task[t].files)
               /\ task[t].log = expected
               /\ StoreList = task[t].before
                                \o RecordsOf(task[t].files, PassedBefore(task[t].files, 1))

\* a file that fails both the extension and the size check, after a stored one
C2_Witness ==
  \E t \in Tasks :
    /\ Validated(t)
    /\ Len(task[t].files) = 2
    /\ FirstFailingCheck(task[t].files[1]) = "none"
    /\ ~ _validate_extension(task[t].files[2].filename)
    /\ ~ _validate_size(task[t].files[2])
    /\ task[t].result.status = 415
    /\ Len(StoreList) = Len(task[t].before) + 1

(***************************************************************************)
(* C3 as stated: every batch with a file of disallowed extension fails     *)
(* with 415 'Unsupported file type', and that file is never read for       *)
(* sniffing.                                                               *)
(***************************************************************************)
C3_AnyDisallowedExtensionGives415 ==
  \A t \in Tasks :
    Validated(t) =>
      \A k \in 1..Len(task[t].files) :
        DisallowedExtension(task[t].files[k].filename) =>
          /\ task[t].result.kind = "raise"
          /\ task[t].result.status = 415
          /\ task[t].result.detail = "Unsupported file type"
          /\ ~ Logged(t, k, "sniff")

(***************************************************************************)
(* C3 amended: every batch with a file of disallowed extension fails, and  *)
(* that file is never read; the error is 415 'Unsupported file type' for   *)
(* that file when every file before it in the batch is valid.              *)
(***************************************************************************)
C3_DisallowedExtensionNeverSniffed ==
  \A t \in Tasks :
    Validating(t) =>
      \A k \in 1..Len(task[t].files) :
        DisallowedExtension(task[t].files[k].filename) =>
          /\ ~ Logged(t, k, "sniff")
          /\ task[t].cursor[k] = 0
          /\ task[t].pc = "done" =>
               /\ task[t].result.kind = "raise"
               /\ (\A j \in 1..(k-1) : ValidFile(task[t].files[j])) =>
                    task[t].result =
                      HTTPException(415, "Unsupported file type", task[t].files[k].filename, "")

C3_Witness ==
  \E t \in Tasks :
    /\ Validated(t)
    /\ Len(task[t].files) = 2
    /\ ValidFile(task[t].files[1])
    /\ DisallowedExtension(task[t].files[2].filename)
    /\ SniffedMime(task[t].files[2]) \in allowed_mime_types
    /\ task[t].result.status = 415
    /\ task[t].result.detail = "Unsupported file type"
    /\ task[t].cursor[2] = 0

(***************************************************************************)
(* C4: the size check passes exactly for the sizes s <= max_file_size: a   *)
(* file of exactly the maximum is accepted, one of one byte more is        *)
(* rejected with 413 'File too large'.                                     *)
(***************************************************************************)
TooLarge(t, k) ==
  /\ task[t].pc = "done"
  /\ task[t].i = k
  /\ task[t].result = HTTPException(413, "File too large", task[t].files[k].filename, "")

C4_SizeCheckBoundary ==
  \A t \in Tasks :
    Validating(t) =>
      \A k \in 1..Len(task[t].files) :
        Logged(t, k, "size") =>
          (task[t].files[k].size <= 15 * 1024 * 1024 <=> ~ TooLarge(t, k))

C4_Witness ==
  \E t \in Tasks :
    /\ Validated(t)
    /\ Len(task[t].files) = 2
    /\ task[t].files[1].size = 15 * 1024 * 1024
    /\ task[t].files[2].size = 15 * 1024 * 1024 + 1
    /\ TooLarge(t, 2)
    /\ StoreList # << >>
    /\ len(StoreList[Len(StoreList)].content) = 15 * 1024 * 1024

(***************************************************************************)
(* C5: when validate_documents fails on the file at position i, exactly    *)
(* the files before it have been appended, in order, and are still stored  *)
(* once the error is raised; nothing is stored when the first file fails   *)
(* or the batch is empty.                                                  *)
(***************************************************************************)
C5_NoRollback ==
  \A t \in Tasks :
    (Validated(t) /\ Raised(t)) =>
      LET n == IF task[t].files = << >> THEN 0 ELSE task[t].i - 1
      IN  /\ StoreList = task[t].before \o RecordsOf(task[t].files, n)
          /\ n = 0 => StoreList = task[t].before

C5_Witness ==
  \E t \in Tasks :
    /\ Validated(t)
    /\ Raised(t)
    /\ task[t].i = 2
    /\ task[t].before # << >>
    /\ StoreList = Append(task[t].before, RecordOf(task[t].files[1]))

(***************************************************************************)
(* C6: every record of the Project File Store has a mime_type in the       *)
(* allowed MIME set, a filename whose lower-cased suffix after its last    *)
(* '.' is in the allowed extension set, and a content no longer than the   *)
(* maximum size.                                                           *)
(***************************************************************************)
C6_StoredRecordsAreValid ==
  \A k \in 1..Len(StoreList) :
    /\ StoreList[k].mime_type \in allowed_mime_types
    /\ AllowedExtension(StoreList[k].filename)
    /\ len(StoreList[k].content) <= 15 * 1024 * 1024

(***************************************************************************)
(* C7: sniffing reads at most the first 1024 bytes and then puts the read  *)
(* cursor back to 0, so the content stored for an accepted file is its     *)
(* full body from the first byte, also when the body is longer than 1024   *)
(* bytes.                                                                  *)
(***************************************************************************)
C7_StoredContentIsFullBody ==
  \A t \in Tasks :
    Validating(t) =>
      LET s == task[t]
      IN  /\ s.pc \in {"seek", "read_content"} =>
               /\ len(s.file_header) <= 1024
               /\ s.file_header =
                    Bytes(s.files[s.i].body, 0,
                          IF s.files[s.i].size < 1024 THEN s.files[s.i].size ELSE 1024)
          /\ s.pc = "seek" => s.cursor[s.i] = len(s.file_header)
          /\ s.pc = "read_content" => s.cursor[s.i] = 0
          /\ \A k \in 1..(Len(StoreList) - Len(s.before)) :
               StoreList[Len(s.before) + k].content = FullBody(s.files[k])

C7_Witness ==
  \E t \in Tasks :
    /\ Validated(t)
    /\ Len(StoreList) = Len(task[t].before) + 1
    /\ task[t].files[1].size > 1024
    /\ StoreList[Len(StoreList)].content = FullBody(task[t].files[1])
    /\ len(StoreList[Len(StoreList)].content) > 1024

(***************************************************************************)
(* C8: the extension check passes exactly when the filename contains a '.' *)
(* and the string after its final '.', compared case-insensitively, is in  *)
(* the allowed-extension list; a filename without any '.' does not pass.   *)
(***************************************************************************)
ExtensionRejected(t, k) ==
  /\ task[t].pc = "done"
  /\ task[t].i = k
  /\ task[t].result =
       HTTPException(415, "Unsupported file type", task[t].files[k].filename, "")

C8_ExtensionCheck ==
  \A t \in Tasks :
    Validating(t) =>
      \A k \in 1..Len(task[t].files) :
        Logged(t, k, "extension") =>
          (AllowedExtension(task[t].files[k].filename) <=> ~ ExtensionRejected(t, k))

(***************************************************************************)
(* C9: when ensure_store_exists calls do not overlap, the remote store is  *)
(* created by the first call only: a successful create leaves its handle   *)
(* cached, and from then on the handle never changes, every call returns   *)
(* it, and the remote create is not invoked again.                         *)
(***************************************************************************)
EnsureReturnsCached(t) ==
  (task[t].pc = "idle" /\ task'[t].op = "ensure_store_exists") =>
    /\ task'[t].pc = "done"
    /\ task'[t].result = ReturnHandle(file_search_store_name)

C9_StoreCreatedOnce ==
  /\ [](remote_stores <= 1 /\ (remote_stores = 1 => file_search_store_name # None))
  /\ [][ file_search_store_name # None =>
           /\ file_search_store_name' = file_search_store_name
           /\ create_calls' = create_calls
           /\ remote_stores' = remote_stores
           /\ \A t \in Tasks : EnsureReturnsCached(t) ]_vars

\* a call served from the cache after the one create
C9_Witness ==
  \E t \in Tasks :
    /\ task[t].op = "ensure_store_exists"
    /\ task[t].pc = "done"
    /\ task[t].log = << >>
    /\ file_search_store_name # None
    /\ task[t].result = ReturnHandle(file_search_store_name)
    /\ create_calls = 1
    /\ remote_stores = 1

(***************************************************************************)
(* C10: two ensure_store_exists calls that both find no cached handle      *)
(* before either create completes both invoke the remote create; when both *)
(* creates succeed two remote stores exist and the cached handle is the    *)
(* one of the create that completed last, which shadows the other.         *)
(***************************************************************************)
InvokedCreate(t) ==
  task[t].op = "ensure_store_exists" /\ task[t].log = <<Ev(0, "create")>>

CreatedStore(t) ==
  InvokedCreate(t) /\ task[t].pc = "done" /\ task[t].result.kind = "return"

C10_ConcurrentCreateRace ==
  \A a, b \in Tasks :
    (a # b /\ InvokedCreate(a) /\ InvokedCreate(b)) =>
      /\ create_calls >= 2
      /\ (CreatedStore(a) /\ CreatedStore(b)) =>
           /\ task[a].result.handle # task[b].result.handle
           /\ remote_stores >= 2
           /\ file_search_store_name =
                (IF task[a].result.handle > task[b].result.handle
                 THEN task[a].result.handle ELSE task[b].result.handle)

C10_Witness ==
  \E a, b \in Tasks :
    /\ a # b
    /\ CreatedStore(a)
    /\ CreatedStore(b)
    /\ remote_stores = 2
    /\ task[a].result.handle = 1
    /\ task[b].result.handle = 2
    /\ file_search_store_name = 2

(***************************************************************************)
(* Vocabulary of the claims about the remote calls.                        *)
(***************************************************************************)
IsUpload(c) == c.api = "upload"

IsGenerate(c) == c.api = "generate"

\* the remote calls of one kind a task has issued, in order
UploadsOf(t) == SelectSeq(task[t].calls, IsUpload)

GenerationsOf(t) == SelectSeq(task[t].calls, IsGenerate)

\* the upload of the k-th record of the session's list to store h
ExpectedUpload(h, k) ==
  [api |-> "upload", store |-> h, filename |-> StoreList[k].filename,
   content |-> StoreList[k].content, mime_type |-> StoreList[k].mime_type,
   contents |-> << >>, text |-> "", error |-> ""]

ExpectedUploads(h, n) == [k \in 1..n |-> ExpectedUpload(h, k)]

\* upload_files_to_store has returned, to its caller or to generate_brief
UploadReturned(t) ==
  \/ /\ task[t].op = "upload_files_to_store"
     /\ task[t].pc = "done"
     /\ task[t].result.kind = "return"
  \/ task[t].op = "generate_brief" /\ task[t].pc = "generate"

(***************************************************************************)
(* C11: an invocation of upload_files_to_store issues one upload per       *)
(* record of the session's store list, in list order, each with the        *)
(* record's content, mime_type and filename and to the ensured store, and  *)
(* returns that store's handle; this holds whatever earlier invocations    *)
(* have uploaded, and no upload is issued when the list has no record.     *)
(***************************************************************************)
C11_OneUploadPerRecord ==
  \A t \in Tasks :
    LET s == task[t]
    IN  /\ (s.op = "upload_files_to_store" /\ s.pc = "upload") =>
             /\ s.store_name # None
             /\ s.store_name = file_search_store_name
             /\ s.j <= Len(StoreList)
             /\ UploadsOf(t) = ExpectedUploads(s.store_name, s.j)
        /\ UploadReturned(t) =>
             /\ s.store_name # None
             /\ s.store_name = file_search_store_name
             /\ UploadsOf(t) = ExpectedUploads(s.store_name, Len(StoreList))
             /\ s.req = "" => s.result = ReturnHandle(s.store_name)

\* the last of two uploads of an invocation is of a file that the remote
\* store already holds from an earlier invocation
C11_Witness ==
  \E t \in Tasks :
    /\ task[t].op = "upload_files_to_store"
    /\ task[t].req = ""
    /\ task[t].pc = "upload"
    /\ Len(StoreList) = 2
    /\ task[t].j = 2
    /\ Len(task[t].calls) = 2
    /\ task[t].calls[2] = ExpectedUpload(file_search_store_name, 2)
    /\ task[t].calls[2] \in remote_files

(***************************************************************************)
(* Vocabulary of the claims about search.                                  *)
(***************************************************************************)
\* the files a search goes over: the session's list for a request, the
\* caller's list for a call of search_all_user_files
SearchedFiles(t) ==
  IF task[t].req = "search_store"
  THEN store_get(PROJECT_FILE_STORE, task[t].project_id)
  ELSE task[t].project_files

\* search_all_user_files called on the service
SearchCalled(t) == task[t].op = "search_all_user_files" /\ task[t].req = ""

\* the first n results of a search, from its files and its calls' answers
ExpectedResults(t, n) ==
  [k \in 1..n |-> [filename |-> SearchedFiles(t)[k].filename,
                   snippet |-> task[t].calls[k].text]]

\* the response of a handler: status and detail, no content
ErrorResponse(status, detail) ==
  [NoResult EXCEPT !.kind = "response", !.status = status, !.detail = detail]

\* a request to the search handler has been answered
SearchAnswered(t) == task[t].op = "search_store" /\ task[t].pc = "done"

\* the last remote call of the task failed
LastCallFailed(t) ==
  task[t].calls # << >> /\ task[t].calls[Len(task[t].calls)].error # ""

(***************************************************************************)
(* C12: when every remote call succeeds, search_all_user_files(query,      *)
(* files) issues len(files) generation calls and returns len(files)        *)
(* results, result i with the filename of files[i] and the text of the     *)
(* i-th call; for an empty list it returns an empty list without any       *)
(* remote call.                                                            *)
(***************************************************************************)
C12_OneResultPerFile ==
  \A t \in Tasks :
    LET s == task[t]
    IN  /\ (SearchCalled(t) /\ s.pc = "search") =>
             /\ Len(s.calls) = s.j
             /\ s.j <= Len(s.project_files)
             /\ s.results = ExpectedResults(t, s.j - 1)
        /\ (SearchCalled(t) /\ s.pc = "done" /\ s.result.kind = "return") =>
             /\ Len(s.calls) = Len(s.project_files)
             /\ \A k \in 1..Len(s.calls) :
                  /\ IsGenerate(s.calls[k])
                  /\ s.calls[k].contents = s.query
                  /\ s.calls[k].text \in Texts
             /\ s.result = ReturnResults(ExpectedResults(t, Len(s.project_files)))

\* two files, two calls that answered differently
C12_Witness ==
  \E t \in Tasks :
    /\ SearchCalled(t)
    /\ task[t].pc = "done"
    /\ Len(task[t].project_files) = 2
    /\ task[t].project_files[1].filename # task[t].project_files[2].filename
    /\ task[t].calls[1].text = "text two"
    /\ task[t].calls[2].text = "text one"
    /\ task[t].result =
         ReturnResults(<< [filename |-> task[t].project_files[1].filename,
                           snippet |-> "text two"],
                          [filename |-> task[t].project_files[2].filename,
                           snippet |-> "text one"] >>)

(***************************************************************************)
(* C13: a search request with an empty query is answered 400 'Query cannot *)
(* be empty' whatever the project_id and the stored files are; it issues   *)
(* no remote call and changes neither the Project File Store nor the       *)
(* cached store handle.                                                    *)
(***************************************************************************)
C13_EmptyQueryIs400 ==
  [][ \A t \in Tasks :
        (task[t].pc = "idle" /\ task'[t].req = "search_store" /\ task'[t].query = << >>) =>
          /\ task'[t].pc = "done"
          /\ task'[t].result = ErrorResponse(400, "Query cannot be empty")
          /\ task'[t].calls = << >>
          /\ PROJECT_FILE_STORE' = PROJECT_FILE_STORE
          /\ file_search_store_name' = file_search_store_name
          /\ create_calls' = create_calls
          /\ remote_files' = remote_files ]_vars

\* an empty query for the session that has a file stored and uploaded
C13_Witness ==
  \E t \in Tasks :
    /\ SearchAnswered(t)
    /\ task[t].query = << >>
    /\ task[t].project_id = user_uuid
    /\ StoreList # << >>
    /\ file_search_store_name # None
    /\ task[t].result = ErrorResponse(400, "Query cannot be empty")

(***************************************************************************)
(* C14: a search request with a non-empty query and a non-empty project_id *)
(* that has no accepted file is answered 404 'No files found ...' without  *)
(* any remote call; whatever has happened before, this is the answer for   *)
(* every project_id other than the active session identifier.              *)
(***************************************************************************)
C14_UnknownProjectIs404 ==
  \A t \in Tasks :
    (SearchAnswered(t) /\ task[t].query # << >> /\ task[t].project_id # "") =>
      /\ (store_get(PROJECT_FILE_STORE, task[t].project_id) = << >>
            \/ task[t].project_id # user_uuid) =>
           /\ task[t].result = ErrorResponse(404, "No files found for the given project ID")
           /\ task[t].calls = << >>
      /\ DOMAIN PROJECT_FILE_STORE \subseteq {user_uuid}

\* another project is asked for while the session has a file
C14_Witness ==
  \E t \in Tasks :
    /\ SearchAnswered(t)
    /\ task[t].query # << >>
    /\ task[t].project_id = "other"
    /\ StoreList # << >>
    /\ task[t].result.status = 404
    /\ task[t].calls = << >>

(***************************************************************************)
(* C15: when a search request has passed the input checks and a remote     *)
(* call of the search fails, the answer is 500 with the detail 'Error      *)
(* during search: ' followed by the message of the failure, and it carries *)
(* no result.                                                              *)
(***************************************************************************)
C15_SearchFailureIs500 ==
  \A t \in Tasks :
    (SearchAnswered(t) /\ LastCallFailed(t)) =>
      /\ task[t].calls[Len(task[t].calls)].error \in ErrorMessages
      /\ task[t].result =
           ErrorResponse(500, "Error during search: "
                                \o task[t].calls[Len(task[t].calls)].error)
      /\ task[t].result.results = << >>

\* the second call fails after the first has given a result
C15_Witness ==
  \E t \in Tasks :
    /\ SearchAnswered(t)
    /\ Len(task[t].calls) = 2
    /\ task[t].calls[2].error = "quota exceeded"
    /\ Len(task[t].results) = 1
    /\ task[t].result = ErrorResponse(500, "Error during search: quota exceeded")

(***************************************************************************)
(* Vocabulary of the claims about the handlers' responses.                 *)
(***************************************************************************)
\* a request to a handler has been answered
Answered(t) == task[t].req # "" /\ task[t].pc = "done"

\* the details that carry message, bare or after a handler's own words
Embedding(message) == { message, "Error during search: " \o message }

\* the filenames of the first n records of the session's list, with ', '
\* between them
RECURSIVE NamesListed(_)
NamesListed(n) ==
  IF n = 0 THEN << >>
  ELSE IF n = 1 THEN StoreList[1].filename
  ELSE NamesListed(n - 1) \o <<",", " ">> \o StoreList[n].filename

ExpectedPrompt ==
  <<"Provide a concise brief for the following documents: ">>
    \o NamesListed(Len(StoreList))

(***************************************************************************)
(* C16: a failure of an external API call reaches the client as a 500      *)
(* response that embeds the message of the failure; so it is for the brief *)
(* endpoint when the remote create, a remote upload or the generation      *)
(* fails.                                                                  *)
(***************************************************************************)
C16_RemoteFailureIs500WithMessage ==
  \A t \in Tasks :
    (Answered(t) /\ LastCallFailed(t)) =>
      /\ task[t].result.kind = "response"
      /\ task[t].result.status = 500
      /\ task[t].result.detail \in Embedding(task[t].calls[Len(task[t].calls)].error)

(***************************************************************************)
(* C17: a brief request whose batch passes validation and whose remote     *)
(* calls all succeed issues one generation request, scoped to the handle   *)
(* the upload step returned, whose prompt lists the filenames of all       *)
(* records of the session's store in order; the answer is 200 with         *)
(* project_id the session identifier, store_name that handle and brief the *)
(* generated text.                                                         *)
(***************************************************************************)
C17_BriefOfAllStoredFiles ==
  \A t \in Tasks :
    LET s == task[t]
        g == GenerationsOf(t)
    IN  /\ (s.op = "generate_brief" /\ s.pc = "generate") =>
             /\ Len(g) = 1
             /\ s.calls[Len(s.calls)] = g[1]
             /\ g[1].store = s.store_name
             /\ g[1].contents = ExpectedPrompt
        /\ (s.op = "generate_brief" /\ s.pc = "done" /\ s.result.status = 200) =>
             /\ Len(g) = 1
             /\ s.calls[Len(s.calls)] = g[1]
             /\ g[1].store = s.store_name
             /\ g[1].contents = ExpectedPrompt
             /\ g[1].text \in Texts
             /\ s.store_name # None
             /\ s.result = [NoResult EXCEPT !.kind = "response", !.status = 200,
                                            !.project_id = user_uuid,
                                            !.handle = s.store_name,
                                            !.brief = g[1].text]

\* the brief of a batch of one file, sent when the session held a file
C17_Witness ==
  \E t \in Tasks :
    /\ task[t].op = "generate_brief"
    /\ task[t].pc = "done"
    /\ task[t].result.status = 200
    /\ task[t].result.brief = "text two"
    /\ Len(task[t].files) = 1
    /\ Len(task[t].before) = 1
    /\ Len(StoreList) = 2
    /\ StoreList[1].filename # StoreList[2].filename
    /\ GenerationsOf(t)[1].contents =
         <<"Provide a concise brief for the following documents: ">>
           \o StoreList[1].filename \o <<",", " ">> \o StoreList[2].filename

(***************************************************************************)
(* C18: the brief is served at POST /documents/brief and the search at     *)
(* POST /documents/search: a request to these paths reaches generate_brief *)
(* and search_store.                                                       *)
(***************************************************************************)
C18_ServedAtDocumentsPaths ==
  \A t \in Tasks :
    /\ task[t].path = "/documents/brief" => task[t].req = "generate_brief"
    /\ task[t].path = "/documents/search" => task[t].req = "search_store"

(***************************************************************************)
(* C19: when the generation call for the file at position i fails during   *)
(* search_all_user_files, the failure reaches the caller, no remote call   *)
(* is issued for a file after position i, and no result obtained for the   *)
(* files before position i is returned.                                    *)
(***************************************************************************)
C19_SearchFailureAborts ==
  \A t \in Tasks :
    (SearchCalled(t) /\ task[t].pc = "done" /\ LastCallFailed(t)) =>
      LET s == task[t]
      IN  /\ s.result = Exception(s.calls[Len(s.calls)].error)
          /\ s.result.results = << >>
          /\ Len(s.calls) = s.j
          /\ s.j <= Len(s.project_files)
          /\ \A k \in 1..(s.j - 1) : s.calls[k].error = ""
          /\ Len(s.results) = s.j - 1

\* the call for the second file fails after the first has given a result
C19_Witness ==
  \E t \in Tasks :
    /\ SearchCalled(t)
    /\ task[t].pc = "done"
    /\ Len(task[t].project_files) = 2
    /\ Len(task[t].calls) = 2
    /\ task[t].calls[1].text = "text one"
    /\ task[t].calls[2].error = "unavailable"
    /\ Len(task[t].results) = 1
    /\ task[t].result = Exception("unavailable")

(***************************************************************************)
(* C20: under any interleaving, at the awaited file reads, of two          *)
(* concurrent validate_documents calls of the same session whose batches   *)
(* of m and n files are all valid, no append is lost or overwritten: the   *)
(* final store list is the previous one followed by m + n new records,     *)
(* and the files of each batch are in their batch-relative order.          *)
(***************************************************************************)
\* a batch, not empty, of valid files
AllValid(files) == files # << >> /\ \A k \in 1..Len(files) : ValidFile(files[k])

\* the positions of the store list at which a call has appended
Appended(t) == { task[t].appended[k] : k \in 1..Len(task[t].appended) }

\* b was called while a ran: what the list gained between the two calls
\* is what a had appended
Concurrent(a, b) ==
  /\ Len(task[a].before) <= Len(task[b].before)
  /\ (Len(task[a].before) + 1)..Len(task[b].before) \subseteq Appended(a)

C20_ConcurrentAppendsAllKept ==
  \A a, b \in Tasks :
    (/\ a # b
     /\ Validating(a) /\ AllValid(task[a].files)
     /\ Validating(b) /\ AllValid(task[b].files)) =>
      /\ Appended(a) \cap Appended(b) = {}
      /\ \A k \in 1..Len(task[a].appended) :
           /\ task[a].appended[k] \in (Len(task[a].before) + 1)..Len(StoreList)
           /\ StoreList[task[a].appended[k]] = RecordOf(task[a].files[k])
           /\ k > 1 => task[a].appended[k - 1] < task[a].appended[k]
      /\ task[a].pc = "done" =>
           /\ task[a].result = ReturnBool(TRUE)
           /\ Len(task[a].appended) = Len(task[a].files)
      /\ Concurrent(a, b) =>
           /\ IsPrefix(task[a].before, StoreList)
           /\ (Len(task[a].before) + 1)..Len(StoreList) = Appended(a) \cup Appended(b)
           /\ (task[a].pc = "done" /\ task[b].pc = "done") =>
                Len(StoreList) =
                  Len(task[a].before) + Len(task[a].files) + Len(task[b].files)

\* a batch of two and a batch of one, the one appended between the two
C20_Witness ==
  \E a, b \in Tasks :
    /\ a # b
    /\ Validated(a) /\ AllValid(task[a].files)
    /\ Validated(b) /\ AllValid(task[b].files)
    /\ task[a].before = << >>
    /\ task[b].before = << >>
    /\ task[a].appended = <<1, 3>>
    /\ task[b].appended = <<2>>
    /\ StoreList = << RecordOf(task[a].files[1]), RecordOf(task[b].files[1]),
                      RecordOf(task[a].files[2]) >>
    /\ task[a].files[1] # task[b].files[1]

(***************************************************************************)
(* C21: across any sequence and interleaving of validate, upload, brief    *)
(* and search operations the store list of a session only grows by         *)
(* appending at its end: no record is removed, reordered or modified, so   *)
(* the list of an earlier state is a prefix of the list of a later one.    *)
(***************************************************************************)
C21_StoreOnlyAppends ==
  [][ \A key \in DOMAIN PROJECT_FILE_STORE :
        /\ key \in DOMAIN PROJECT_FILE_STORE'
        /\ IsPrefix(PROJECT_FILE_STORE[key], PROJECT_FILE_STORE'[key]) ]_vars

\* a brief request has appended behind the record that a search in progress
\* goes over
C21_Witness ==
  \E a, b \in Tasks :
    /\ a # b
    /\ task[a].req = "search_store"
    /\ task[a].pc = "search"
    /\ task[a].j = 1
    /\ task[b].req = "generate_brief"
    /\ task[b].pc = "upload"
    /\ task[b].before = <<StoreList[1]>>
    /\ task[b].appended = <<2>>
    /\ Len(StoreList) = 2
    /\ StoreList[1] # StoreList[2]

(***************************************************************************)
(* C22: after any sequence of service operations, also ones in which       *)
(* reading a file's content fails, a session key is in the Project File    *)
(* Store only if a file has been accepted and stored for the session: no   *)
(* key maps to an empty list.                                              *)
(***************************************************************************)
\* no call or request is in progress
Quiescent == \A t \in Tasks : task[t].pc \in {"idle", "done"}

C22_NoKeyWithEmptyList ==
  Quiescent =>
    \A key \in DOMAIN PROJECT_FILE_STORE : PROJECT_FILE_STORE[key] # << >>

(***************************************************************************)
(* C23: whenever the search endpoint issues a generation call for a stored *)
(* file, the cached store handle is set and the file has been uploaded to  *)
(* the remote store of that handle; so it is after any sequence of brief   *)
(* and search requests, also after brief requests that failed in           *)
(* validation or in a remote call.                                         *)
(***************************************************************************)
C23_SearchedFilesAreUploaded ==
  \A t \in Tasks :
    (task[t].req = "search_store" /\ task[t].pc = "search") =>
      /\ file_search_store_name # None
      /\ task[t].calls[Len(task[t].calls)].store = file_search_store_name
      /\ ExpectedUpload(file_search_store_name, task[t].j) \in remote_files

(***************************************************************************)
(* C24: under any interleaving of concurrent brief requests, every         *)
(* filename listed in a request's brief prompt is that of a record the     *)
(* same request has uploaded, before its generation call, to the remote    *)
(* store the call is scoped to; a file appended by a concurrent request is *)
(* not in the prompt without having been uploaded by the request that      *)
(* names it.                                                               *)
(***************************************************************************)
\* the filenames of the first n of a sequence of uploads, with ', ' between
\* them
RECURSIVE UploadNamesListed(_, _)
UploadNamesListed(ups, n) ==
  IF n = 0 THEN << >>
  ELSE IF n = 1 THEN ups[1].filename
  ELSE UploadNamesListed(ups, n - 1) \o <<",", " ">> \o ups[n].filename

C24_PromptNamesOwnUploads ==
  \A t \in Tasks :
    (task[t].req = "generate_brief" /\ GenerationsOf(t) # << >>) =>
      LET g == GenerationsOf(t)[1]
          ups == UploadsOf(t)
      IN  /\ task[t].calls[Len(task[t].calls)].api = "generate"
          /\ g.contents =
               <<"Provide a concise brief for the following documents: ">>
                 \o UploadNamesListed(ups, Len(ups))
          /\ \A k \in 1..Len(ups) :
               /\ ups[k].store = g.store
               /\ ups[k].error = ""
               /\ ups[k] \in remote_files
               /\ ups[k] = ExpectedUpload(g.store, k)

\* the prompt of a request names the file that a concurrent request, still
\* in progress, has appended; the request has uploaded both
C24_Witness ==
  \E a, b \in Tasks :
    /\ a # b
    /\ task[a].req = "generate_brief"
    /\ task[a].pc = "generate"
    /\ task[a].appended = <<1>>
    /\ task[b].req = "generate_brief"
    /\ task[b].pc \in {"create", "upload"}
    /\ task[b].appended = <<2>>
    /\ Len(UploadsOf(a)) = 2
    /\ UploadsOf(a)[2].filename = task[b].files[1].filename
    /\ task[a].files[1].filename # task[b].files[1].filename
    /\ GenerationsOf(a)[1].contents =
         <<"Provide a concise brief for the following documents: ">>
           \o task[a].files[1].filename \o <<",", " ">> \o task[b].files[1].filename
====
